---- MODULE Spec2Model ----
(***************************************************************************)
(* A model of src/src/main.py: the NCM container decoder ncmdump (header   *)
(* check, key unwrapping, key-box scheduling, metadata decoding, chunked   *)
(* stream transform) and the process-pool driver main.                     *)
(*                                                                         *)
(* Bytes are integers 0..255, byte strings are sequences (1-based, so the  *)
(* Python index k is the TLA+ index k+1).  The key box, a bytearray        *)
(* indexed 0..255, is a function on 0..255.                                *)
(*                                                                         *)
(* The container file is read front to back; what a read returns is chosen *)
(* when the read happens.  AES-ECB decryption is a bijection on byte       *)
(* strings whose length is a multiple of 16, so a key blob of such a       *)
(* length is named by the plaintext it decrypts to.                        *)
(***************************************************************************)
EXTENDS Integers, Sequences, FiniteSets, TLC

\* ------------------------------------------------------------------ bounds
\* Largest number of whole chunks in a payload.
MaxChunks == 1
\* Longest seed key of the key-schedule specification.
MaxSeedLen == 2

\* ------------------------------------------------------- program constants
\* A chunk size one byte short of 0x8000.
ChunkSizeOff == 32768 - 1

\* f.read(0x8000)
ChunkSize == 32768
\* [17:] after unpad
SeedSkip == 17
\* the AES block length
BlockLen == 16

\* Python's None, for a name not yet bound, by the type it will hold.
NoBytes == <<-1>>
NoBox == <<>>
NoDoc == [unset |-> TRUE]
NoPayload == [len |-> -1, a |-> 0, b |-> 0]
NoName == <<>>
NoExc == [type |-> "none", msg |-> ""]

Byte == 0..255

\* binascii.a2b_hex('4354454e4644414d'), the 8 header bytes
Magic == <<67, 84, 69, 78, 70, 68, 65, 77>>

\* ------------------------------------------------------------- exceptions
\* An exception is its class and str(e).
AssertionError == [type |-> "AssertionError", msg |-> ""]
StructError == [type |-> "struct.error", msg |-> "unpack requires a buffer of 4 bytes"]
BlockLengthError ==
    [type |-> "ValueError",
     msg |-> "The length of the provided data is not a multiple of the block length."]
EmptyIndexError == [type |-> "IndexError", msg |-> "index out of range"]
KeyIndexError == [type |-> "IndexError", msg |-> "bytearray index out of range"]
MetaDecodeError == [type |-> "ValueError", msg |-> "metadata cannot be decoded"]
FormatKeyError == [type |-> "KeyError", msg |-> "'format'"]

\* ----------------------------------------------------------- byte helpers
\* a ^ b on bytes, bit by bit
RECURSIVE BitXor(_, _)
BitXor(a, b) ==
    IF a = 0 THEN b
    ELSE IF b = 0 THEN a
    ELSE ((a + b) % 2) + 2 * BitXor(a \div 2, b \div 2)

\* a ^ b for every pair of bytes, computed once
XorTable == [a \in Byte |-> [b \in Byte |-> BitXor(a, b)]]

\* A function on 1..n as a sequence of length n.
AsBytes(f, n) == SubSeq(f, 1, n)

\* s[0:-n] for n = s[-1], s non-empty: Python's slice, so n = 0 gives s[0:0]
\* and n >= len(s) gives the empty string.
Unpad(s) ==
    LET n == s[Len(s)]
    IN  IF n = 0 \/ n >= Len(s) THEN <<>> ELSE SubSeq(s, 1, Len(s) - n)

\* unpad(...)[17:]
SeedOf(plain) ==
    LET u == Unpad(plain)
    IN  IF Len(u) <= SeedSkip THEN <<>> ELSE SubSeq(u, SeedSkip + 1, Len(u))

\* ------------------------------------------------------------ key schedule
\* bytearray(range(256))
IdentityBox == [k \in Byte |-> k]

\* One iteration of the scheduling loop that forgets to store swap back.
KsaIterOverwrite(box, last, off, key, idx) ==
    LET swap == box[idx]
        cc == (swap + last + key[off + 1]) % 256
    IN  [key_box |-> [box EXCEPT ![idx] = box[cc]],
         c |-> cc,
         last_byte |-> cc,
         key_offset |-> IF off + 1 >= Len(key) THEN 0 ELSE off + 1]

\* One iteration of the scheduling loop that leaves last_byte out of c.
KsaIterNoAccum(box, last, off, key, idx) ==
    LET swap == box[idx]
        cc == (swap + key[off + 1]) % 256
    IN  [key_box |-> [[box EXCEPT ![idx] = box[cc]] EXCEPT ![cc] = swap],
         c |-> cc,
         last_byte |-> cc,
         key_offset |-> IF off + 1 >= Len(key) THEN 0 ELSE off + 1]

\* One iteration of the scheduling loop, for a non-empty key.
KsaIter(box, last, off, key, idx) ==
    LET swap == box[idx]
        cc == (swap + last + key[off + 1]) % 256
    IN  [key_box |-> [[box EXCEPT ![idx] = box[cc]] EXCEPT ![cc] = swap],
         c |-> cc,
         last_byte |-> cc,
         key_offset |-> IF off + 1 >= Len(key) THEN 0 ELSE off + 1]

\* ---------------------------------------------------------- stream cipher
\* key_box[(key_box[j] + key_box[(key_box[j] + j) & 0xff]) & 0xff]
KeyStream(box, j) == box[(box[j] + box[(box[j] + j) % 256]) % 256]

\* The keystream byte of every j = i & 0xff.
KeyStreamTable(box) == [j \in Byte |-> KeyStream(box, j)]

\* The per-byte transform with + in place of ^.
StreamTransformAdd(chunk, box) ==
    LET n == Len(chunk)
        ks == KeyStreamTable(box)
    IN  AsBytes([p \in 1..n |-> (chunk[p] + ks[p % 256]) % 256], n)

\* The for loop over one chunk: i = 1..chunk_length, j = i & 0xff,
\* chunk[i - 1] ^= keystream byte of j.
StreamTransform(chunk, box) ==
    LET n == Len(chunk)
        ks == KeyStreamTable(box)
    IN  AsBytes([p \in 1..n |-> XorTable[chunk[p]][ks[p % 256]]], n)

\* -------------------------------------------------- the container's parts
\* The first 8 bytes a container may hold: the magic, zero bytes, or an
\* empty file.
Headers == {Magic, <<0, 0, 0, 0, 0, 0, 0, 0>>, <<>>}

\* The 17 bytes that line 51 discards from the key plaintext.
KeyLabel == <<110, 101, 116, 101, 97, 115, 101, 99, 108, 111, 117, 100, 109, 117, 115, 105, 99>>

\* A 16-byte seed key.
LongSeed == [k \in 1..16 |-> (37 * k) % 256]

\* Seed keys wrapped in the key blobs of the decode specification.
DumpSeeds == {<<>>, <<0>>, <<1, 255>>, LongSeed}

\* The PKCS#7 padding length of a key plaintext holding seed.
PadLen(seed) == BlockLen - ((SeedSkip + Len(seed)) % BlockLen)

\* The AES plaintext label + seed + padding whose final byte is last
\* (last = PadLen(seed) is the well-formed plaintext).
KeyPlain(seed, last) ==
    LET n == PadLen(seed)
    IN  KeyLabel \o seed \o [k \in 1..n |-> IF k = n THEN last ELSE n]

\* Final bytes of a key plaintext: the right padding length, and corrupt ones.
PadBytes(seed) == {PadLen(seed), 0, 17, 255}

\* What the key blob of a container may be: cut short before its length
\* field is complete, of a length that is no multiple of the block length,
\* or the ciphertext of a plaintext (empty for a declared length of 0).
KeyBlobs ==
    {[kind |-> "truncated", plain |-> <<>>], [kind |-> "badlen", plain |-> <<>>],
     [kind |-> "ok", plain |-> <<>>]}
    \cup UNION {{[kind |-> "ok", plain |-> KeyPlain(seed, last)] :
                    last \in PadBytes(seed)} : seed \in DumpSeeds}

\* Output formats named by the metadata.
Formats == {"mp3", "flac"}

\* json.loads results: a document with a format field, or one without.
MetaDocs == {[format |-> f] : f \in Formats} \cup {[musicName |-> "x"]}

\* What the meta blob may be: cut short, not decodable (base64, AES length,
\* UTF-8 or JSON failure), or the ciphertext of a JSON document.
MetaBlobs ==
    {[kind |-> "truncated", doc |-> NoDoc], [kind |-> "undecodable", doc |-> NoDoc]}
    \cup {[kind |-> "ok", doc |-> d] : d \in MetaDocs}

\* Payload lengths: whole chunks plus a remainder.
PayloadLens == {k * ChunkSize + d : k \in 0..MaxChunks, d \in {0, 1, 257}}

\* The audio payload: its length and the rule giving the byte at offset o.
Payloads == {[len |-> n, a |-> 7, b |-> 3] : n \in PayloadLens}

PayloadByte(pl, o) == (pl.a * o + pl.b) % 256

\* f.read(n) at offset pos of the payload: up to n bytes, fewer at the end.
ReadChunk(pl, pos, n) ==
    LET m == IF pl.len - pos < n THEN pl.len - pos ELSE n
    IN  AsBytes([p \in 1..m |-> PayloadByte(pl, pos + p - 1)], m)

\* File names are <<stem, extension>>; a folder maps the names of its files
\* to their content: "old" for a file found there, "new" for one opened 'wb'.
SourceNames == {<<"a", "ncm">>, <<"a", "mp3">>}
EmptyFolder == [n \in {} |-> "old"]
FolderOf(names) == [n \in names |-> "old"]
Folders == {FolderOf(ns) : ns \in {{}, {<<"a", "mp3">>}, {<<"a", "flac">>}, {<<"b", "mp3">>}}}

\* ------------------------------------------------------------------ state
VARIABLES
    pc,              \* where ncmdump stands
    exc,             \* the exception that ended it, or NoExc
    filename,        \* os.path.basename(filepath) as <<stem, extension>>
    folder,          \* the files of target_folder
    folder0,         \* target_folder as ncmdump found it
    header,          \* f.read(8)
    key_plain,       \* cryptor.update(key_data) + cryptor.finalize()
    key_data,        \* the seed key
    key_length,
    key_box,
    c,
    last_byte,
    key_offset,
    i,               \* the next index of range(256)
    meta_data,       \* json.loads(meta_data)
    ops,             \* the cipher work done so far
    payload,         \* the rest of the container after the cover-size field
    fpos,            \* bytes of the payload read so far
    reads,           \* chunk_length of every f.read(0x8000)
    writes,          \* every chunk given to m.write
    target_filename,
    \* the driver main and its process pool
    mpc,             \* where main stands
    source,          \* the files os.walk finds under the source folder, in order
    existing,        \* the files os.walk finds under the destination folder
    dest,            \* the destination folder: file name -> content
    wf_dict,
    to_add,
    task,            \* the futures: name -> the state of process_song_mp
    log              \* what main logged: <<level, name>>

ksaVars == <<key_data, key_length, key_box, c, last_byte, key_offset, i>>
streamVars == <<payload, fpos, reads, writes, target_filename>>
mainVars == <<mpc, source, existing, dest, wf_dict, to_add, task, log>>
vars ==
    <<pc, exc, filename, folder, folder0, header, key_plain, meta_data, ops,
      ksaVars, streamVars, mainVars>>

\* main is not running.
IdleMain ==
    /\ mpc = "idle"
    /\ source = <<>>
    /\ existing = <<>>
    /\ dest = <<>>
    /\ wf_dict = <<>>
    /\ to_add = {}
    /\ task = <<>>
    /\ log = {}

\* Leaving ncmdump by an exception.
Raise(e) == pc' = "error" /\ exc' = e

\* ncmdump is called on filepath with target_folder.
Init ==
    /\ pc = "start"
    /\ exc = NoExc
    /\ filename \in SourceNames
    /\ folder \in Folders
    /\ folder0 = folder
    /\ header = NoBytes
    /\ key_plain = NoBytes
    /\ key_data = NoBytes
    /\ key_length = 0
    /\ key_box = NoBox
    /\ c = 0
    /\ last_byte = 0
    /\ key_offset = 0
    /\ i = 0
    /\ meta_data = NoDoc
    /\ ops = {}
    /\ payload = NoPayload
    /\ fpos = 0
    /\ reads = <<>>
    /\ writes = <<>>
    /\ target_filename = NoName
    /\ IdleMain

\* Lines 24-32: a name that does not end in .ncm returns at once; an existing
\* mp3 or flac of the same stem in the target folder skips the file.
Start ==
    /\ pc = "start"
    /\ pc' = IF filename[2] # "ncm" THEN "returned"
             ELSE IF \E ftype \in {"mp3", "flac"} : <<filename[1], ftype>> \in DOMAIN folder
                  THEN "skipped"
                  ELSE "magic"
    /\ UNCHANGED <<exc, filename, folder, folder0, header, key_plain, meta_data, ops,
                   ksaVars, streamVars>>
    /\ UNCHANGED mainVars

\* Lines 39-41 with the assert compiled out.
CheckMagicNoAssert ==
    /\ pc = "magic"
    /\ \E h \in Headers : header' = h
    /\ pc' = "key"
    /\ UNCHANGED <<exc, filename, folder, folder0, key_plain, meta_data, ops,
                   ksaVars, streamVars>>
    /\ UNCHANGED mainVars

\* Lines 39-41: read 8 bytes and assert that they are the magic.
CheckMagic ==
    /\ pc = "magic"
    /\ \E h \in Headers :
        /\ header' = h
        /\ IF h = Magic THEN pc' = "key" /\ exc' = exc ELSE Raise(AssertionError)
    /\ UNCHANGED <<filename, folder, folder0, key_plain, meta_data, ops,
                   ksaVars, streamVars>>
    /\ UNCHANGED mainVars

\* Lines 42-57: read the key blob, undo the 0x64 mask, AES-decrypt, unpad,
\* drop 17 bytes, and set up the scheduling loop.
UnwrapKey ==
    /\ pc = "key"
    /\ \E blob \in KeyBlobs :
        IF blob.kind = "truncated"
        THEN /\ Raise(StructError)
             /\ UNCHANGED <<key_plain, ops, ksaVars>>
        ELSE IF blob.kind = "badlen"
        THEN /\ Raise(BlockLengthError)
             /\ ops' = ops \cup {"key_read", "key_aes"}
             /\ UNCHANGED <<key_plain, ksaVars>>
        ELSE IF Len(blob.plain) = 0
        THEN /\ Raise(EmptyIndexError)
             /\ key_plain' = blob.plain
             /\ ops' = ops \cup {"key_read", "key_aes"}
             /\ UNCHANGED ksaVars
        ELSE /\ pc' = "ksa"
             /\ exc' = exc
             /\ key_plain' = blob.plain
             /\ key_data' = SeedOf(blob.plain)
             /\ key_length' = Len(SeedOf(blob.plain))
             /\ key_box' = IdentityBox
             /\ c' = 0
             /\ last_byte' = 0
             /\ key_offset' = 0
             /\ i' = 0
             /\ ops' = ops \cup {"key_read", "key_aes", "key_box"}
    /\ UNCHANGED <<filename, folder, folder0, header, meta_data, streamVars>>
    /\ UNCHANGED mainVars

\* Lines 58-66: one iteration of for i in range(256); key_data[key_offset]
\* raises IndexError on an empty key.
KsaStep ==
    /\ pc = "ksa"
    /\ i < 256
    /\ IF key_length = 0
       THEN /\ Raise(KeyIndexError)
            /\ UNCHANGED ksaVars
       ELSE LET r == KsaIter(key_box, last_byte, key_offset, key_data, i)
            IN  /\ key_box' = r.key_box
                /\ c' = r.c
                /\ last_byte' = r.last_byte
                /\ key_offset' = r.key_offset
                /\ i' = i + 1
                /\ pc' = IF i = 255 THEN "meta" ELSE "ksa"
                /\ exc' = exc
                /\ UNCHANGED <<key_data, key_length>>
    /\ UNCHANGED <<filename, folder, folder0, header, key_plain, meta_data, ops,
                   streamVars>>
    /\ UNCHANGED mainVars

\* Lines 67-77: read the meta blob, undo the 0x63 mask, drop the 22-byte
\* label, base64-decode, AES-decrypt, unpad, decode UTF-8, drop 6 characters
\* and parse the JSON document.
DecodeMeta ==
    /\ pc = "meta"
    /\ \E blob \in MetaBlobs :
        IF blob.kind = "truncated"
        THEN /\ Raise(StructError)
             /\ UNCHANGED <<meta_data, ops>>
        ELSE IF blob.kind = "undecodable"
        THEN /\ Raise(MetaDecodeError)
             /\ ops' = ops \cup {"meta_read"}
             /\ UNCHANGED meta_data
        ELSE /\ pc' = "tail"
             /\ exc' = exc
             /\ meta_data' = blob.doc
             /\ ops' = ops \cup {"meta_read", "meta_aes"}
    /\ UNCHANGED <<filename, folder, folder0, header, key_plain, ksaVars, streamVars>>
    /\ UNCHANGED mainVars

\* Lines 78-82: the CRC32, 5 skipped bytes and the cover size; struct.unpack
\* raises when the file ends inside them.  What follows is the payload.
ReadTail ==
    /\ pc = "tail"
    /\ \/ /\ Raise(StructError)
          /\ UNCHANGED payload
       \/ /\ \E pl \in Payloads : payload' = pl
          /\ pc' = "open"
          /\ exc' = exc
    /\ UNCHANGED <<filename, folder, folder0, header, key_plain, meta_data, ops,
                   ksaVars, fpos, reads, writes, target_filename>>
    /\ UNCHANGED mainVars

\* Lines 83-84 with a default extension when the document has no format.
OpenTargetDefaultExt ==
    /\ pc = "open"
    /\ LET ext == IF "format" \in DOMAIN meta_data THEN meta_data.format ELSE "mp3"
           name == <<filename[1], ext>>
       IN  /\ target_filename' = name
           /\ folder' = [n \in DOMAIN folder \cup {name} |->
                            IF n = name THEN "new" ELSE folder[n]]
    /\ pc' = "stream"
    /\ UNCHANGED <<exc, filename, folder0, header, key_plain, meta_data, ops,
                   ksaVars, payload, fpos, reads, writes>>
    /\ UNCHANGED mainVars

\* Lines 83-84: meta_data["format"] names the target, which open(..., 'wb')
\* creates or truncates; a document without the field raises KeyError.
OpenTarget ==
    /\ pc = "open"
    /\ IF "format" \notin DOMAIN meta_data
       THEN /\ Raise(FormatKeyError)
            /\ UNCHANGED <<folder, target_filename>>
       ELSE LET name == <<filename[1], meta_data.format>>
            IN  /\ target_filename' = name
                /\ folder' = [n \in DOMAIN folder \cup {name} |->
                                 IF n = name THEN "new" ELSE folder[n]]
                /\ pc' = "stream"
                /\ exc' = exc
    /\ UNCHANGED <<filename, folder0, header, key_plain, meta_data, ops,
                   ksaVars, payload, fpos, reads, writes>>
    /\ UNCHANGED mainVars

\* Lines 86-94 leaving the loop on a chunk shorter than 0x8000.
StreamChunkStopShort ==
    /\ pc = "stream"
    /\ LET chunk == ReadChunk(payload, fpos, ChunkSize)
           chunk_length == Len(chunk)
       IN  /\ reads' = Append(reads, chunk_length)
           /\ fpos' = fpos + chunk_length
           /\ IF chunk_length < ChunkSize
              THEN pc' = "done" /\ writes' = writes
              ELSE /\ writes' = Append(writes, StreamTransform(chunk, key_box))
                   /\ pc' = "stream"
    /\ UNCHANGED <<exc, filename, folder, folder0, header, key_plain, meta_data, ops,
                   ksaVars, payload, target_filename>>
    /\ UNCHANGED mainVars

\* Lines 86-94: one pass of the while loop: read up to 0x8000 bytes, leave
\* on an empty chunk (then lines 95-96 return), else transform and write it.
StreamChunk ==
    /\ pc = "stream"
    /\ LET chunk == ReadChunk(payload, fpos, ChunkSize)
           chunk_length == Len(chunk)
       IN  /\ reads' = Append(reads, chunk_length)
           /\ fpos' = fpos + chunk_length
           /\ IF chunk_length = 0
              THEN pc' = "done" /\ writes' = writes
              ELSE /\ writes' = Append(writes, StreamTransform(chunk, key_box))
                   /\ pc' = "stream"
    /\ UNCHANGED <<exc, filename, folder, folder0, header, key_plain, meta_data, ops,
                   ksaVars, payload, target_filename>>
    /\ UNCHANGED mainVars

Next ==
    \/ Start
    \/ CheckMagic
    \/ UnwrapKey
    \/ KsaStep
    \/ DecodeMeta
    \/ ReadTail
    \/ OpenTarget
    \/ StreamChunk

Spec == Init /\ [][Next]_vars

\* ------------------------------------------- the key schedule on its own
\* Byte values of the seed keys of the key-schedule specification.
SeedBytes == {0, 1, 255}

\* Every seed key of 1..MaxSeedLen bytes over SeedBytes.
SeedKeys == UNION {[1..n -> SeedBytes] : n \in 1..MaxSeedLen}

\* ncmdump at line 58, having unwrapped a well-formed key blob holding seed.
InitKsa ==
    /\ pc = "ksa"
    /\ exc = NoExc
    /\ filename = <<"a", "ncm">>
    /\ folder = EmptyFolder
    /\ folder0 = folder
    /\ header = Magic
    /\ \E seed \in SeedKeys :
        /\ key_plain = KeyPlain(seed, PadLen(seed))
        /\ key_data = SeedOf(key_plain)
    /\ key_length = Len(key_data)
    /\ key_box = IdentityBox
    /\ c = 0
    /\ last_byte = 0
    /\ key_offset = 0
    /\ i = 0
    /\ meta_data = NoDoc
    /\ ops = {"key_read", "key_aes", "key_box"}
    /\ payload = NoPayload
    /\ fpos = 0
    /\ reads = <<>>
    /\ writes = <<>>
    /\ target_filename = NoName
    /\ IdleMain

NextKsa == KsaStep

SpecKsa == InitKsa /\ [][NextKsa]_vars

\* ------------------------------------------------------------------ claims
\* C1: for every non-empty seed key the key box is a permutation of 0..255
\* after each iteration of the scheduling loop, not only at its end: all of
\* its 256 entries are bytes and together they take all 256 values.
C1_KeyBoxPermutation ==
    pc \in {"ksa", "meta"} =>
        /\ \A k \in Byte : key_box[k] \in Byte
        /\ {key_box[k] : k \in Byte} = Byte

\* C1's case: the loop is half way through a two-byte key and has moved entries.
C1_Witness ==
    /\ pc = "ksa"
    /\ i = 128
    /\ key_length = 2
    /\ key_box # IdentityBox

\* C6 as stated: with the seed key 0x00, after all 256 iterations the box
\* starts 0, 1, 3, 5.
C6_Original ==
    (pc = "meta" /\ key_data = <<0>>) =>
        key_box[0] = 0 /\ key_box[1] = 1 /\ key_box[2] = 3 /\ key_box[3] = 5

\* C6 amended: with the seed key 0x00 the box starts 0, 1, 3, 5 after the
\* first four iterations; later iterations move entries 1 and 3 again, and
\* after all 256 the box starts 0, 35, 3, 43.
C6_KnownVector ==
    key_data = <<0>> =>
        /\ (pc = "ksa" /\ i = 4) =>
              key_box[0] = 0 /\ key_box[1] = 1 /\ key_box[2] = 3 /\ key_box[3] = 5
        /\ pc = "meta" =>
              key_box[0] = 0 /\ key_box[1] = 35 /\ key_box[2] = 3 /\ key_box[3] = 43

\* C6's case: the schedule has run to its end on the seed key 0x00.
C6_Witness == pc = "meta" /\ i = 256 /\ key_data = <<0>>

\* C4: a container whose first 8 bytes are not the magic fails at the
\* assertion with no cipher work done: no key blob read or decrypted, no
\* key box, no metadata.
C4_MagicBeforeCipher ==
    (header # NoBytes /\ header # Magic) =>
        /\ pc = "error"
        /\ exc = AssertionError
        /\ ops = {}
        /\ key_plain = NoBytes
        /\ key_box = NoBox
        /\ meta_data = NoDoc

\* C4's case: a header of eight zero bytes was read and rejected.
C4_Witness == header = <<0, 0, 0, 0, 0, 0, 0, 0>> /\ pc = "error"

\* The final byte of the key plaintext is no padding length of a 16-byte block.
BadPadding ==
    /\ key_plain # NoBytes
    /\ Len(key_plain) > 0
    /\ key_plain[Len(key_plain)] \notin 1..BlockLen

\* C5 as stated: a key plaintext whose final byte is 0 or above 16 makes the
\* decode fail; no scheduling iteration ever runs on a seed key cut from it.
C5_PaddingRejected == BadPadding => (i = 0 /\ pc \in {"ksa", "error"})

\* The number of bytes in a sequence of chunks.
RECURSIVE TotalLen(_)
TotalLen(chunks) ==
    IF chunks = <<>> THEN 0
    ELSE Len(chunks[Len(chunks)]) + TotalLen(SubSeq(chunks, 1, Len(chunks) - 1))

\* C7: one chunk is written per non-empty chunk read, in order and with the
\* same size; the loop leaves at the first empty read, without error, having
\* written as many bytes as the payload holds (none for an empty payload).
C7_ChunkForChunk ==
    pc \in {"stream", "done"} =>
        /\ \A k \in 1..Len(writes) : reads[k] > 0 /\ Len(writes[k]) = reads[k]
        /\ pc = "stream" => Len(reads) = Len(writes)
        /\ pc = "done" =>
              /\ Len(reads) = Len(writes) + 1
              /\ reads[Len(reads)] = 0
              /\ TotalLen(writes) = payload.len
              /\ exc = NoExc

\* C7's case: a payload of one whole chunk and 257 bytes was streamed to the end.
C7_Witness ==
    /\ pc = "done"
    /\ Len(writes) = 2
    /\ Len(writes[1]) = ChunkSize
    /\ Len(writes[2]) = 257

\* The chunk last read, whose transform is the chunk last written.
LastRead == ReadChunk(payload, fpos - reads[Len(reads)], ChunkSize)

\* C2: the stream transform applied to a transformed chunk, with the same
\* key box, gives back the chunk that was read.
C2_Involution ==
    (pc = "stream" /\ writes # <<>>) =>
        StreamTransform(writes[Len(writes)], key_box) = LastRead

\* C2's case: a chunk of the full 32768 bytes was transformed and written.
C2_Witness == pc = "stream" /\ Len(writes) = 1 /\ Len(writes[1]) = ChunkSize

\* The transform that counts the position from 1 across the whole payload:
\* the n bytes from offset from, byte at 1-based position g XORed with the
\* keystream byte of g mod 256.
ContinuousTransform(pl, box, from, n) ==
    LET ks == KeyStreamTable(box)
    IN  AsBytes([p \in 1..n |->
                   XorTable[PayloadByte(pl, from + p - 1)][ks[(from + p) % 256]]], n)

\* C3: every chunk written equals the same stretch of the payload under the
\* transform that counts positions across the whole payload.
C3_ChunkedIsContinuous ==
    (pc = "stream" /\ writes # <<>>) =>
        writes[Len(writes)] =
            ContinuousTransform(payload, key_box, fpos - reads[Len(reads)], reads[Len(reads)])

\* C3's case: a second chunk, read after a whole first one, was written.
C3_Witness == pc = "stream" /\ Len(writes) = 2 /\ fpos = ChunkSize + 257

\* C10: the target folder changes only once the magic check, the seed key
\* (non-empty), the 256 scheduling iterations and the format lookup have
\* succeeded; a decode that raised left the folder as it found it.
C10_OutputAfterChecks ==
    /\ folder # folder0 =>
          /\ header = Magic
          /\ key_length >= 1
          /\ i = 256
          /\ meta_data # NoDoc
          /\ "format" \in DOMAIN meta_data
          /\ pc \in {"stream", "done"}
    /\ pc = "error" => folder = folder0

\* C10's case: the format lookup, the last of the steps, failed.
C10_Witness == pc = "error" /\ exc = FormatKeyError /\ folder = folder0

\* ------------------------------------------------- main and its process pool
\* Largest number of files under the source folder.
MaxSongs == 2

\* ProcessPoolExecutor(max_workers=8)
MaxWorkers == 8

\* ncmdump is not running.
IdleDump ==
    /\ pc = "idle"
    /\ exc = NoExc
    /\ filename = NoName
    /\ folder = EmptyFolder
    /\ folder0 = EmptyFolder
    /\ header = NoBytes
    /\ key_plain = NoBytes
    /\ key_data = NoBytes
    /\ key_length = 0
    /\ key_box = NoBox
    /\ c = 0
    /\ last_byte = 0
    /\ key_offset = 0
    /\ i = 0
    /\ meta_data = NoDoc
    /\ ops = {}
    /\ payload = NoPayload
    /\ fpos = 0
    /\ reads = <<>>
    /\ writes = <<>>
    /\ target_filename = NoName

\* What a container holds, by what ncmdump makes of it: a format tag it
\* decodes to, a wrong magic, or metadata without a format field.
NcmKinds == {"mp3", "badmagic", "noformat"}

\* The files a source folder may hold: a, b and a.mp3 (a name with a dot of
\* its own) at the top, a again in a subfolder, each as a plain mp3 or as a
\* container.
SourcePlaces == {<<"", "a">>, <<"sub", "a">>, <<"", "b">>, <<"", "a.mp3">>}

\* os.path.join(sf, name + "." + ext): a path in the destination folder.
DestPath(stem, ext) == stem \o "." \o ext

\* No destination path.
NoPath == ""
SourceFiles ==
    {[dir |-> p[1], stem |-> p[2], ext |-> "mp3", kind |-> "audio", size |-> 100] :
        p \in SourcePlaces}
    \cup {[dir |-> p[1], stem |-> p[2], ext |-> "ncm", kind |-> k, size |-> 200] :
             p \in SourcePlaces, k \in NcmKinds}

PathOf(f) == <<f.dir, f.stem, f.ext>>

\* os.walk's listings of a source folder: at most MaxSongs files, no path
\* twice, the top folder's files before the subfolder's.
Sources ==
    {fs \in UNION {[1..n -> SourceFiles] : n \in 0..MaxSongs} :
        \A j, k \in DOMAIN fs :
            j < k => /\ PathOf(fs[j]) # PathOf(fs[k])
                     /\ ~(fs[j].dir = "sub" /\ fs[k].dir = "")}

\* The destination folder as main finds it: empty, or holding a.mp3.
Existings ==
    {<<>>, <<[dir |-> "", stem |-> "a", ext |-> "mp3", kind |-> "audio", size |-> 101]>>}

MusicExts == {"mp3", "flac", "ncm"}

\* get_music_dict keyed by the file name with its extension.
GetMusicDictByFile(files) ==
    LET music == {k \in DOMAIN files : files[k].ext \in MusicExts}
        key(k) == files[k].stem \o "." \o files[k].ext
    IN  [name \in {key(k) : k \in music} |->
            files[CHOOSE k \in music :
                     key(k) = name /\ \A j \in music : j > k => key(j) # name]]

\* Lines 101-113: name (the file name without its extension) -> the file,
\* for the music files in walk order; a later file of the same name replaces
\* an earlier one.
GetMusicDict(files) ==
    LET music == {k \in DOMAIN files : files[k].ext \in MusicExts}
    IN  [name \in {files[k].stem : k \in music} |->
            files[CHOOSE k \in music :
                     files[k].stem = name /\ \A j \in music : j > k => files[j].stem # name]]

\* Lines 162-174: the names of the source folder without a file of the same
\* name and nearly the same size (under 3% apart) in the destination.
ToAdd(wf, sf) ==
    {name \in DOMAIN wf :
        ~(/\ name \in DOMAIN sf
          /\ LET size1 == wf[name].size
                 size2 == sf[name].size
                 diff == IF size1 > size2 THEN size1 - size2 ELSE size2 - size1
                 max == IF size1 > size2 THEN size1 ELSE size2
             IN  100 * diff < 3 * max)}

\* What ncmdump raises on a container, NoExc when it decodes.
ContainerExc(kind) ==
    IF kind = "badmagic" THEN AssertionError
    ELSE IF kind = "noformat" THEN FormatKeyError
    ELSE NoExc

\* meta_data["format"] of a container that decodes.
ContainerFormat(kind) == kind

\* The bytes a task writes: the source file copied or decoded.
Content(f) == <<IF f.ext = "ncm" THEN "decode" ELSE "copy", f.dir, f.stem, f.ext>>

\* A future: queued, checked (ncmdump found no existing output), writing
\* (its target is open) or done with process_song_mp's result (name, error):
\* error is <<>> for None and <<str(e)>> otherwise.
NewTask == [pc |-> "queued", dst |-> NoPath, exc |-> NoExc, error |-> <<>>, collected |-> FALSE]

Running == {n \in DOMAIN task : task[n].pc \in {"checked", "writing"}}

InitMain ==
    /\ IdleDump
    /\ mpc = "scan"
    /\ source \in Sources
    /\ existing \in Existings
    /\ dest = [n \in {DestPath(existing[k].stem, existing[k].ext) : k \in DOMAIN existing} |->
                  <<"old">>]
    /\ wf_dict = <<>>
    /\ to_add = {}
    /\ task = <<>>
    /\ log = {}

dumpVars ==
    <<pc, exc, filename, folder, folder0, header, key_plain, meta_data, ops,
      ksaVars, streamVars>>

\* Lines 159-178: build both dictionaries, drop the songs already in the
\* destination, and submit one process_song_mp per song left.
Scan ==
    /\ mpc = "scan"
    /\ wf_dict' = GetMusicDict(source)
    /\ to_add' = ToAdd(wf_dict', GetMusicDict(existing))
    /\ task' = [n \in to_add' |-> NewTask]
    /\ mpc' = "pool"
    /\ UNCHANGED <<source, existing, dest, log, dumpVars>>

\* Lines 116-121 and, for a container, lines 24-31 of ncmdump: an existing
\* mp3 or flac of the same stem makes ncmdump return without converting.
TaskBegin(n) ==
    /\ mpc = "pool"
    /\ task[n].pc = "queued"
    /\ Cardinality(Running) < MaxWorkers
    /\ LET src == wf_dict[n]
       IN  IF /\ src.ext = "ncm"
              /\ \E ftype \in {"mp3", "flac"} : DestPath(src.stem, ftype) \in DOMAIN dest
           THEN task' = [task EXCEPT ![n].pc = "done"]
           ELSE task' = [task EXCEPT ![n].pc = "checked"]
    /\ UNCHANGED <<mpc, source, existing, dest, wf_dict, to_add, log, dumpVars>>

\* For a container lines 39-84 of ncmdump: parse it, which may raise, and
\* open the target named by its format; else lines 124-125: shutil.copy2
\* opens the file of the same name in the destination.  Opening truncates.
TaskOpen(n) ==
    /\ mpc = "pool"
    /\ task[n].pc = "checked"
    /\ LET src == wf_dict[n]
           e == IF src.ext = "ncm" THEN ContainerExc(src.kind) ELSE NoExc
           name == DestPath(src.stem, IF src.ext = "ncm" THEN ContainerFormat(src.kind) ELSE src.ext)
       IN  IF e # NoExc
           THEN /\ task' = [task EXCEPT ![n].pc = "done", ![n].exc = e, ![n].error = <<e.msg>>]
                /\ dest' = dest
           ELSE /\ task' = [task EXCEPT ![n].pc = "writing", ![n].dst = name]
                /\ dest' = [d \in DOMAIN dest \cup {name} |-> IF d = name THEN <<>> ELSE dest[d]]
    /\ UNCHANGED <<mpc, source, existing, wf_dict, to_add, log, dumpVars>>

\* Lines 86-96 of ncmdump, or the copy of shutil.copy2, then line 126.
TaskWrite(n) ==
    /\ mpc = "pool"
    /\ task[n].pc = "writing"
    /\ dest' = [dest EXCEPT ![task[n].dst] = Content(wf_dict[n])]
    /\ task' = [task EXCEPT ![n].pc = "done"]
    /\ UNCHANGED <<mpc, source, existing, wf_dict, to_add, log, dumpVars>>

\* if error: of line 181: None and the empty string are both false.
Truthy(error) == error # <<>> /\ error[1] # ""

\* Lines 179-184: main takes a completed future and logs its result.
Collect(n) ==
    /\ mpc = "pool"
    /\ task[n].pc = "done"
    /\ ~task[n].collected
    /\ task' = [task EXCEPT ![n].collected = TRUE]
    /\ log' = log \cup {<<IF Truthy(task[n].error) THEN "error" ELSE "processed", n>>}
    /\ UNCHANGED <<mpc, source, existing, dest, wf_dict, to_add, dumpVars>>

\* The with block ends when every future was collected.
Exit ==
    /\ mpc = "pool"
    /\ \A n \in DOMAIN task : task[n].collected
    /\ mpc' = "exit"
    /\ UNCHANGED <<source, existing, dest, wf_dict, to_add, task, log, dumpVars>>

NextMain ==
    \/ Scan
    \/ \E n \in DOMAIN task : TaskBegin(n)
    \/ \E n \in DOMAIN task : TaskOpen(n)
    \/ \E n \in DOMAIN task : TaskWrite(n)
    \/ \E n \in DOMAIN task : Collect(n)
    \/ Exit

SpecMain == InitMain /\ [][NextMain]_vars

C9_ErrorsLogged ==
    \A n \in DOMAIN task :
        task[n].collected =>
            /\ task[n].exc # NoExc => (<<"error", n>> \in log /\ <<"processed", n>> \notin log)
            /\ <<"processed", n>> \in log => task[n].exc = NoExc

====
